---- MODULE Spec2Model ----
(***************************************************************************)
(* Model of the travdif-bot-backend chat relays.  The repository holds     *)
(* several near-duplicate Express backends; one of them is deployed per    *)
(* process.  The variable `variant` says which one this process runs:      *)
(*   "completion"  OpenAI chat completion   (src/server.js:1-103 and its   *)
(*                 copies server.js:427-513, part_000:453-526, part_001)   *)
(*   "completion3" OpenAI chat completion   (src/unnamed/part_003)         *)
(*   "gemini"      Gemini, single template  (src/server.js:515-912)        *)
(*   "smart"       Gemini, keyword routing  (src/unnamed/part_000:1-452)   *)
(*   "beta"        Gemini, Zivy Beta        (src/server.js:105-425)        *)
(*   "assistant"   OpenAI Assistants        (src/unnamed/part_002)         *)
(* JavaScript strings are sequences of one-character strings; the fixed    *)
(* persona text of a template literal is one token.                        *)
(***************************************************************************)
EXTENDS Integers, Sequences, FiniteSets, TLC

----------------------------------------------------------------------------
(* Bounds of the model *)

\* the requests that are handled at the same time
Slots == {1, 2}
\* longest query of the prompt-builder specification
MaxQueryLen == 4
\* stands for the registry cap of 1000 (src/unnamed/part_002:152)
ThreadCap == 2
\* stands for maxAttempts = 30 (src/unnamed/part_002:172)
MaxAttempts == 2
\* stands for the 16 base64 characters (12 bytes) kept of a session id
KeyLen == 3

----------------------------------------------------------------------------
(* Strings *)

Contains(s, sub) ==
  \E i \in 0..(Len(s) - Len(sub)) : SubSeq(s, i + 1, i + Len(sub)) = sub

includes(s, sub) == Contains(s, sub)

LowerChar(c) ==
  CASE c = "T" -> "t"
    [] c = "R" -> "r"
    [] c = "I" -> "i"
    [] c = "P" -> "p"
    [] OTHER -> c

toLowerCase(s) == [i \in 1..Len(s) |-> LowerChar(s[i])]

substring(s, n) == SubSeq(s, 1, IF n < Len(s) THEN n ELSE Len(s))

Whitespace == {" ", "\n"}

RECURSIVE trimStart(_)
trimStart(s) ==
  IF s # <<>> /\ Head(s) \in Whitespace THEN trimStart(Tail(s)) ELSE s

RECURSIVE trimEnd(_)
trimEnd(s) ==
  IF s # <<>> /\ s[Len(s)] \in Whitespace
    THEN trimEnd(SubSeq(s, 1, Len(s) - 1))
    ELSE s

trim(s) == trimEnd(trimStart(s))

----------------------------------------------------------------------------
(* Prompt builder of the keyword-routed Gemini backend *)

travelKeywords ==
  { <<"t", "r", "a", "v", "d", "i", "f">>,
    <<"t", "r", "a", "v", "e", "l">>,
    <<"t", "r", "i", "p">>,
    <<"v", "a", "c", "a", "t", "i", "o", "n">>,
    <<"h", "o", "l", "i", "d", "a", "y">>,
    <<"b", "o", "o", "k", "i", "n", "g">>,
    <<"p", "a", "c", "k", "a", "g", "e">>,
    <<"d", "e", "s", "t", "i", "n", "a", "t", "i", "o", "n">>,
    <<"f", "l", "i", "g", "h", "t">>,
    <<"h", "o", "t", "e", "l">>,
    <<"t", "o", "u", "r">>,
    <<"j", "o", "u", "r", "n", "e", "y">>,
    <<"i", "t", "i", "n", "e", "r", "a", "r", "y">>,
    <<"p", "r", "i", "c", "e">>,
    <<"c", "o", "s", "t">>,
    <<"q", "u", "o", "t", "e">>,
    <<"c", "o", "n", "t", "a", "c", "t">>,
    <<"w", "h", "a", "t", "s", "a", "p", "p">>,
    <<"i", "n", "s", "t", "a", "g", "r", "a", "m">>,
    <<"s", "e", "r", "v", "i", "c", "e">> }

isTravelRelatedNoLower(userQuery) ==
  \E keyword \in travelKeywords : includes(userQuery, keyword)

\* const queryLower = userQuery.toLowerCase();
\* travelKeywords.some(keyword => queryLower.includes(keyword))
isTravelRelated(userQuery) ==
  LET queryLower == toLowerCase(userQuery)
  IN  \E keyword \in travelKeywords : includes(queryLower, keyword)

\* the travel template literal: fixed text, knowledge base, fixed text, query
TravelHead == "[Zivy travel persona] TRAVDIF KNOWLEDGE BASE:\n"
GeneralHead == "[Zivy general persona] INSTRUCTIONS: [...] User Question: "

travelPromptTruncated(kb, userQuery) ==
  <<TravelHead>> \o substring(kb, 1)
    \o <<"\n\nINSTRUCTIONS: [...] User Question: ">> \o userQuery
    \o <<"\n\nYour Response:">>

travelPrompt(kb, userQuery) ==
  <<TravelHead>> \o kb
    \o <<"\n\nINSTRUCTIONS: [...] User Question: ">> \o userQuery
    \o <<"\n\nYour Response:">>

generalPrompt(userQuery) ==
  <<GeneralHead>> \o userQuery
    \o <<"\n\nYour Response:">>

\* the single template of the plain Gemini backend
geminiPrompt(kb, userQuery) ==
  <<"[Zivy travel persona] KNOWLEDGE BASE:\n">> \o kb
    \o <<"\n\nAnswer the user's question [...] User Question: ">> \o userQuery
    \o <<"\n\nYour Response:">>

\* the Zivy Beta template literal, trimmed
betaPrompt(kb, userQuery) ==
  trim(<<"\n", "[Zivy beta persona] KNOWLEDGE:", "\n">> \o kb
    \o <<"\n", "\n", "User question:", "\n">> \o userQuery
    \o <<"\n", "\n", "Your answer (complete, human-like, no truncation language):", "\n">>)

NoSent == [template |-> "none", prompt |-> <<>>, msgs |-> <<>>]

\* systemPrompt of generateResponse, with the template it was built from
systemPrompt(v, kb, userQuery) ==
  CASE v = "smart" ->
         IF isTravelRelated(userQuery)
           THEN [template |-> "travel", prompt |-> travelPrompt(kb, userQuery), msgs |-> <<>>]
           ELSE [template |-> "general", prompt |-> generalPrompt(userQuery), msgs |-> <<>>]
    [] v = "gemini" ->
         [template |-> "single", prompt |-> geminiPrompt(kb, userQuery), msgs |-> <<>>]
    [] OTHER ->
         [template |-> "single", prompt |-> betaPrompt(kb, userQuery), msgs |-> <<>>]

----------------------------------------------------------------------------
(* Request bodies, clients, vendor answers *)

QTravel == <<"T", "r", "i", "p">>
QGeneral == <<"h", "i">>
Queries == {QTravel, QGeneral}

NullMsg == [kind |-> "null", role |-> "none", ctype |-> "undefined", content |-> <<>>]
UserMsg(q) == [kind |-> "object", role |-> "user", ctype |-> "string", content |-> q]
NumberMsg == [kind |-> "object", role |-> "user", ctype |-> "number", content |-> <<>>]
SystemMsg == [kind |-> "object", role |-> "system", ctype |-> "string", content |-> <<"s">>]
AssistantMsg == [kind |-> "object", role |-> "assistant", ctype |-> "string", content |-> <<"a">>]

\* req.body.messages: a value that is no array, or an array of entries
BodyNotArray == [isArray |-> FALSE, items |-> <<>>]
BodyEmpty == [isArray |-> TRUE, items |-> <<>>]
BodyUser(q) == [isArray |-> TRUE, items |-> <<UserMsg(q)>>]
BodyNumber == [isArray |-> TRUE, items |-> <<NumberMsg>>]
BodySystemUser == [isArray |-> TRUE, items |-> <<SystemMsg, UserMsg(QGeneral)>>]
BodyLastAssistant == [isArray |-> TRUE, items |-> <<UserMsg(QGeneral), AssistantMsg>>]
BodyNull == [isArray |-> TRUE, items |-> <<NullMsg>>]

Bodies ==
  {BodyNotArray, BodyEmpty, BodyNumber, BodySystemUser, BodyLastAssistant, BodyNull}
    \cup {BodyUser(q) : q \in Queries}

\* req.ip and the User-Agent header
ClientList ==
  << [ip |-> <<"1">>, ua |-> <<"a">>],
     [ip |-> <<"1">>, ua |-> <<"b">>],
     [ip |-> <<"2">>, ua |-> <<"a">>],
     [ip |-> <<"2">>, ua |-> <<"b">>] >>

\* two clients; and one client more than the registry has room for
TwoClients == {ClientList[1], ClientList[2]}
Clients == {ClientList[i] : i \in 1..(IF ThreadCap < 3 THEN ThreadCap + 1 ELSE 4)}

NoClient == [ip |-> <<>>, ua |-> <<>>]

\* clients whose addresses are as long as, or longer than, the part of the
\* text that the session key keeps
LongAddresses == {<<"1">>, <<"1", "0">>, <<"1", "0", "0">>, <<"1", "0", "1">>}
SessionClients == {[ip |-> i, ua |-> u] : i \in LongAddresses, u \in {<<"a">>, <<"b">>}}
NoClients == [a |-> NoClient, b |-> NoClient]
NoKeys == [made |-> FALSE, a |-> <<>>, b |-> <<>>]

\* reply texts the vendor produces
Replies == {<<"o", "k">>}

\* knowledge file content, and the hardcoded fallback texts
KnowledgeFileText == <<"k", "b">>
FallbackKnowledge == <<"[Travdif fallback knowledge]">>
BetaFallbackKnowledge ==
  trim(<<"\n", "[ZIVY BETA KNOWLEDGE (FALLBACK)]", "\n", " ">>)

FileAbsent == [exists |-> FALSE, text |-> <<>>]
FilePresent == [exists |-> TRUE, text |-> KnowledgeFileText]
FileEmpty == [exists |-> TRUE, text |-> <<>>]

\* thrown values: an Error with a message, or a value without one
Err(m) == [hasMessage |-> TRUE, message |-> m]
NoMessage == [hasMessage |-> FALSE, message |-> <<>>]
NoError == [hasMessage |-> FALSE, message |-> <<"nothing thrown">>]

PatApiKeyUnderscore == <<"A", "P", "I", "_", "K", "E", "Y">>
PatApiKey == <<"A", "P", "I", " ", "k", "e", "y">>
PatQuota == <<"q", "u", "o", "t", "a">>
PatModel == <<"m", "o", "d", "e", "l">>

\* errors of the Gemini SDK, by the text the classifiers look for
VendorErrors ==
  { Err(PatApiKeyUnderscore), Err(PatQuota), Err(PatModel), Err(<<"network timeout">>) }

ErrMissingKey == Err(<<"G", "E", "M", "I", "N", "I", "_">> \o PatApiKeyUnderscore
                      \o <<" environment variable is required">>)
ErrInvalidKey == Err(<<"Invalid Gemini ">> \o PatApiKey)
ErrQuotaExceeded == Err(<<"Gemini API ">> \o PatQuota \o <<" exceeded">>)
ErrModelUnavailable == Err(<<"Gemini ">> \o PatModel \o <<" not available">>)
\* TypeError of userQuery.substring on a value that is no string
ErrNotAString == Err(<<"userQuery.substring is not a function">>)
\* TypeError of reading .message.includes / .role of undefined or null
ErrTypeError == Err(<<"Cannot read properties of undefined">>)

\* catch block of generateResponse: the error it throws on
rethrownKeepsWording(v, e) ==
  IF ~e.hasMessage THEN (IF v = "beta" THEN e ELSE ErrTypeError)
  ELSE IF includes(e.message, PatApiKeyUnderscore)
    THEN Err(<<"Invalid GEMINI_">> \o PatApiKeyUnderscore)
  ELSE IF includes(e.message, PatQuota) THEN ErrQuotaExceeded
  ELSE IF includes(e.message, PatModel) THEN ErrModelUnavailable
  ELSE e

rethrown(v, e) ==
  IF v = "beta"
    THEN LET m == IF e.hasMessage THEN e.message ELSE <<>>
         IN  IF includes(m, PatApiKeyUnderscore) THEN ErrInvalidKey
             ELSE IF includes(m, PatQuota) THEN ErrQuotaExceeded
             ELSE IF includes(m, PatModel) THEN ErrModelUnavailable
             ELSE e
    ELSE IF ~e.hasMessage THEN ErrTypeError
         ELSE IF includes(e.message, PatApiKeyUnderscore) THEN ErrInvalidKey
         ELSE IF includes(e.message, PatQuota) THEN ErrQuotaExceeded
         ELSE IF includes(e.message, PatModel) THEN ErrModelUnavailable
         ELSE e

\* catch block of POST /chat: the fixed reply of the 500 response
\* ("crash": the catch block itself throws, the rejection is unhandled)
fallbackReply(v, e) ==
  IF ~e.hasMessage THEN "crash"
  ELSE IF v = "beta"
    THEN IF includes(e.message, PatModel) THEN "updating"
         ELSE IF includes(e.message, PatQuota) THEN "busy"
         ELSE IF includes(e.message, PatApiKey) THEN "config"
         ELSE "generic"
    ELSE IF includes(e.message, PatApiKey) THEN "config"
         ELSE IF includes(e.message, PatQuota) THEN "busy"
         ELSE IF includes(e.message, PatModel) THEN "updating"
         ELSE "generic"

\* catch block of POST /chat in every backend; the OpenAI backends have one
\* fixed reply and do not read the error
catchReply(v, e) ==
  IF v = "assistant" THEN "assistantTrouble"
  ELSE IF v \in {"completion", "completion3"} THEN "completionTrouble"
  ELSE fallbackReply(v, e)

----------------------------------------------------------------------------
(* CORS middleware *)

allowedOrigins ==
  { "https://travdif.com",
    "https://www.travdif.com",
    "https://incomparable-heliotrope-f687a0.netlify.app",
    "http://localhost:3000" }

\* req.headers.origin: undefined when the header is absent
NoOrigin == [present |-> FALSE, value |-> ""]
Origin(o) == [present |-> TRUE, value |-> o]

Origins ==
  {NoOrigin} \cup
  { Origin(o) : o \in allowedOrigins \cup
      { "", "null", "https://travdif.com/", "HTTPS://TRAVDIF.COM",
        "https://evil.travdif.com", "https://travdif.com.evil.io",
        "http://travdif.com", "http://localhost:3001" } }

\* the backend files and the `origin` option each passes to cors()
CorsDeployments ==
  { [variant |-> "completion", origin |-> "function"],
    [variant |-> "completion", origin |-> "array"],
    [variant |-> "completion3", origin |-> "wildcard"],
    [variant |-> "gemini", origin |-> "function"],
    [variant |-> "smart", origin |-> "wildcard"],
    [variant |-> "beta", origin |-> "wildcard"],
    [variant |-> "assistant", origin |-> "function"] }

NoDeployment == [variant |-> "none", origin |-> "none"]
NoCors == [checked |-> FALSE, handled |-> FALSE, allowOrigin |-> FALSE]

isListedLoosely(o) ==
  o \in allowedOrigins \cup {"https://travdif.com/", "https://travdif.com.evil.io"}

\* allowedOrigins.indexOf(origin) !== -1, and the string test of the array form
isListed(o) == o \in allowedOrigins

\* cors(options) on one request: `handled` says the request goes on to its
\* route, `allowOrigin` that the response carries Access-Control-Allow-Origin
corsMiddleware(option, origin) ==
  CASE option = "function" ->
         \* if (!origin) return callback(null, true): undefined and "" are falsy
         IF ~origin.present \/ origin.value = ""
           THEN [checked |-> TRUE, handled |-> TRUE, allowOrigin |-> origin.present]
         ELSE IF ~isListed(origin.value)
           THEN [checked |-> TRUE, handled |-> FALSE, allowOrigin |-> FALSE]
         ELSE [checked |-> TRUE, handled |-> TRUE, allowOrigin |-> TRUE]
    [] option = "array" ->
         [checked |-> TRUE, handled |-> TRUE,
          allowOrigin |-> origin.present /\ isListed(origin.value)]
    [] OTHER ->
         [checked |-> TRUE, handled |-> TRUE, allowOrigin |-> TRUE]

----------------------------------------------------------------------------
(* Session registry of the assistant backend: a Map in insertion order *)

\* Buffer.from(`${ip}-${userAgent}`).toString('base64').substring(0, 16):
\* base64 is one-to-one on whole 3-byte groups, so the 16 characters kept
\* are the first 12 bytes of the text; the model keeps the first KeyLen.
generateSessionId(c) ==
  LET ip == IF c.ip = <<>> THEN <<"unknown">> ELSE c.ip
      userAgent == IF c.ua = <<>> THEN <<"unknown">> ELSE c.ua
  IN  substring(ip \o <<"-">> \o userAgent, KeyLen)

SessionKeys == {generateSessionId(c) : c \in Clients}

mapHas(m, k) == \E i \in 1..Len(m) : m[i].key = k

mapGet(m, k) == m[CHOOSE i \in 1..Len(m) : m[i].key = k].id

\* Map.prototype.set: an existing key keeps its place in the order
mapSet(m, k, v) ==
  IF mapHas(m, k)
    THEN [i \in 1..Len(m) |-> IF m[i].key = k THEN [key |-> k, id |-> v] ELSE m[i]]
    ELSE Append(m, [key |-> k, id |-> v])

mapKeys(m) == {m[i].key : i \in 1..Len(m)}

cleanupNever(m) == m

cleanupEager(m) ==
  IF Len(m) >= ThreadCap THEN Tail(m) ELSE m

cleanupLast(m) ==
  IF Len(m) > ThreadCap THEN SubSeq(m, 1, Len(m) - 1) ELSE m

\* if (userThreads.size > 1000) userThreads.delete(userThreads.keys().next().value)
cleanup(m) ==
  IF Len(m) > ThreadCap THEN Tail(m) ELSE m

----------------------------------------------------------------------------
(* Cost estimate: length / 4 tokens at a price per million tokens.  The    *)
(* model counts in units of $1 / (4 * 10^9), which keeps the sums whole.   *)

GeminiInputPrice == 75
GeminiOutputPrice == 300
AssistantInputPrice == 5000
AssistantOutputPrice == 15000

estimatedCostNegated(v, input, reply) ==
  IF v = "assistant"
    THEN Len(input) * AssistantInputPrice - Len(reply) * AssistantOutputPrice
    ELSE Len(input) * GeminiInputPrice - Len(reply) * GeminiOutputPrice

estimatedCost(v, input, reply) ==
  IF v = "assistant"
    THEN Len(input) * AssistantInputPrice + Len(reply) * AssistantOutputPrice
    ELSE Len(input) * GeminiInputPrice + Len(reply) * GeminiOutputPrice

addCostLost(total, v, input, reply) ==
  IF total = 0 THEN estimatedCost(v, input, reply) ELSE total

\* totalCost += estimatedCost
addCost(total, v, input, reply) == total + estimatedCost(v, input, reply)

----------------------------------------------------------------------------
(* State *)

VARIABLES
  variant,        \* which backend this process runs
  proc,           \* "boot", "running" or "crashed"
  envApiKey,      \* the vendor API key is set in the environment
  envFile,        \* the knowledge file on disk
  genAI,          \* the Gemini client exists
  model,          \* the active Gemini model handle, "none" when unset
  knowledgeBase,  \* knowledgeBase / travdifKnowledge
  nLoads,         \* times the knowledge load of initializeGemini has run
  assistant,      \* id of the vendor assistant, 0 when null
  bgInit,         \* background initializeAssistant: "idle", "pending", "done"
  nAssistants,    \* assistants created at the vendor
  userThreads,    \* the session registry
  nThreads,       \* threads created at the vendor
  totalRequests,
  totalCost,
  req,            \* the request handled in each slot
  evicted,        \* history: the session keys evicted so far
  insertedAt,     \* history: per key, the thread count when it was last inserted
  lastSwitch,     \* the latest POST /admin/switch-model and its response
  threadHead,     \* per vendor thread, its newest message: role and run
  pQuery,         \* prompt-builder specification: the query
  pSent,          \* prompt-builder specification: the prompt built
  pError,         \* catch-block specification: the value a call throws
  pCaught,        \* catch-block specification: the value the handler catches
  pReply,         \* catch-block specification: the reply of the 500 response
  pDeployment,    \* CORS specification: the backend file and its CORS option
  pOrigin,        \* CORS specification: the Origin header of the request
  pCors,          \* CORS specification: what the CORS middleware did
  pClients,       \* session-key specification: the two requesting clients
  pKeys           \* session-key specification: their session keys

vars ==
  << variant, proc, envApiKey, envFile, genAI, model, knowledgeBase, nLoads, assistant,
     bgInit, nAssistants, userThreads, nThreads, totalRequests, totalCost, req,
     evicted, insertedAt, lastSwitch, threadHead, pQuery, pSent, pError, pCaught, pReply,
     pDeployment, pOrigin, pCors, pClients, pKeys >>

CompletionVariants == {"completion", "completion3"}
GeminiVariants == {"gemini", "smart", "beta"}
Variants == CompletionVariants \cup GeminiVariants \cup {"assistant"}

DefaultModel == "gemini-2.0-flash-exp"

\* the allow-list of POST /admin/switch-model
validModels(v) ==
  IF v = "gemini"
    THEN {"gemini-1.5-flash-latest", "gemini-1.5-pro-latest", "gemini-2.0-flash"}
    ELSE {"gemini-1.5-flash-latest", "gemini-1.5-pro-latest", "gemini-2.0-flash-exp"}

\* model names a client asks for: two of the lists, one of no list
RequestedModels == {"gemini-1.5-pro-latest", DefaultModel, "gpt-4o"}

NoSwitch == [name |-> "none", status |-> 0, before |-> "none"]

NoReply == [fixed |-> "none", text |-> <<>>]
Fixed(id) == [fixed |-> id, text |-> <<>>]
VendorReply(t) == [fixed |-> "vendor", text |-> t]

IdleReq ==
  [ pc |-> "idle", body |-> BodyNotArray, client |-> NoClient, query |-> <<>>,
    key |-> <<>>, thread |-> 0, attempts |-> 0, runStatus |-> "none", usedModel |-> "none",
    calls |-> 0, source |-> 0,
    sent |-> NoSent, status |-> 0, reply |-> NoReply, responses |-> 0 ]

Init ==
  /\ variant \in Variants
  /\ proc = "boot"
  /\ envApiKey \in IF variant \in CompletionVariants THEN {TRUE} ELSE BOOLEAN
  /\ envFile \in IF variant = "assistant" THEN {FileAbsent} ELSE {FileAbsent, FilePresent}
  /\ genAI = FALSE
  /\ model = "none"
  /\ knowledgeBase = <<>>
  /\ nLoads = 0
  /\ assistant = 0
  /\ bgInit = "idle"
  /\ nAssistants = 0
  /\ userThreads = <<>>
  /\ nThreads = 0
  /\ totalRequests = 0
  /\ totalCost = 0
  /\ req = [r \in Slots |-> IdleReq]
  /\ evicted = {}
  /\ insertedAt = [k \in SessionKeys |-> 0]
  /\ lastSwitch = NoSwitch
  /\ threadHead = <<>>
  /\ pQuery = <<>>
  /\ pSent = NoSent
  /\ pError = NoError
  /\ pCaught = NoError
  /\ pReply = "none"
  /\ pDeployment = NoDeployment
  /\ pOrigin = NoOrigin
  /\ pCors = NoCors
  /\ pClients = NoClients
  /\ pKeys = NoKeys

envVars == <<variant, envApiKey, envFile>>
geminiVars == <<genAI, model, knowledgeBase, nLoads>>
adminVars == <<lastSwitch>>
assistantVars == <<assistant, bgInit, nAssistants>>
registryVars == <<userThreads, nThreads, evicted, insertedAt>>
counterVars == <<totalRequests, totalCost>>
promptVars == <<pQuery, pSent, pError, pCaught, pReply>>
corsVars == <<pDeployment, pOrigin, pCors>>
sessionVars == <<pClients, pKeys>>
vendorVars == <<threadHead>>

\* res.status(st).json({ reply })
Respond(rec, st, rp) ==
  [rec EXCEPT !.pc = "done", !.status = st, !.reply = rp, !.responses = @ + 1]

\* a request takes the first slot that handles none (slots have no identity)
FreeSlot(r) ==
  /\ req[r].pc = "idle"
  /\ \A o \in Slots : o < r => req[o].pc # "idle"

\* the slot's record after the step
Step(r, rec) == req' = [req EXCEPT ![r] = rec]

Last(s) == s[Len(s)]

----------------------------------------------------------------------------
(* Startup *)

KnowledgeFallback(v) == IF v = "beta" THEN BetaFallbackKnowledge ELSE FallbackKnowledge

\* initializeGemini: it has no await, so it runs to its end in one step
initializeGemini(v) ==
  IF ~envApiKey
    THEN [threw |-> TRUE, genAI |-> genAI, model |-> model, knowledgeBase |-> knowledgeBase,
          loads |-> nLoads]
    ELSE [threw |-> FALSE, genAI |-> TRUE, model |-> DefaultModel,
          knowledgeBase |-> IF envFile.exists THEN envFile.text ELSE KnowledgeFallback(v),
          loads |-> nLoads + 1]

\* if (!model) at the head of the /chat handler: the lazy initialization
needsInitAlways(m) == TRUE
needsInit(m) == m = "none"

\* module load and startServer()
StartServer ==
  /\ proc = "boot"
  /\ CASE variant \in CompletionVariants ->
            \* fs.readFileSync at module load throws when the file is absent
            /\ proc' = IF envFile.exists THEN "running" ELSE "crashed"
            /\ knowledgeBase' = IF envFile.exists THEN envFile.text ELSE knowledgeBase
            /\ UNCHANGED <<genAI, model, nLoads, bgInit>>
       [] variant \in GeminiVariants ->
            LET i == initializeGemini(variant)
            IN  /\ proc' = "running"
                /\ genAI' = i.genAI
                /\ model' = i.model
                /\ knowledgeBase' = i.knowledgeBase
                /\ nLoads' = i.loads
                /\ UNCHANGED bgInit
       [] OTHER ->
            /\ proc' = IF envApiKey THEN "running" ELSE "crashed"
            /\ bgInit' = IF envApiKey THEN "pending" ELSE bgInit
            /\ UNCHANGED geminiVars
  /\ UNCHANGED <<envVars, adminVars, corsVars, sessionVars, vendorVars, assistant, nAssistants, registryVars, counterVars, req,
                 promptVars>>

----------------------------------------------------------------------------
(* POST /chat, OpenAI completion backends *)

PersonaSystemMsg(v, kb) ==
  [ kind |-> "object", role |-> "system", ctype |-> "string",
    content |-> IF v = "completion3"
                  THEN <<"\n", "[Zivy persona]", "\n", "\n">> \o kb
                  ELSE trim(<<"\n", "[Zivy persona]", "\n", "\n">> \o kb \o <<"\n", " ">>) ]

\* messages.map(...) reads msg.role: of the first entry only in "completion"
\* (idx === 0 && ...), of every entry in "completion3"
mapThrows(v, items) ==
  \E i \in 1..Len(items) : (v = "completion3" \/ i = 1) /\ items[i].kind = "null"

updatedMessages(v, kb, items) ==
  [ i \in 1..Len(items) |->
      IF (v = "completion3" \/ i = 1) /\ items[i].role = "system"
        THEN PersonaSystemMsg(v, kb)
        ELSE items[i] ]

ChatCompletion(r, b) ==
  /\ proc = "running"
  /\ variant \in CompletionVariants
  /\ FreeSlot(r)
  /\ LET rec == [IdleReq EXCEPT !.body = b]
     IN  IF ~b.isArray
           THEN Step(r, Respond(rec, 400, Fixed("invalidFormat")))
         ELSE IF mapThrows(variant, b.items)
           THEN Step(r, Respond(rec, 500, Fixed("completionTrouble")))
         ELSE Step(r, [rec EXCEPT !.pc = "complete", !.calls = @ + 1,
                         !.sent = [template |-> "messages", prompt |-> <<>>,
                                   msgs |-> updatedMessages(variant, knowledgeBase, b.items)]])
  /\ UNCHANGED <<envVars, adminVars, corsVars, sessionVars, vendorVars, proc, geminiVars, assistantVars, registryVars, counterVars,
                 promptVars>>

CompletionReturn(r, t) ==
  /\ proc = "running"
  /\ req[r].pc = "complete"
  /\ Step(r, Respond(req[r], 200, VendorReply(t)))
  /\ UNCHANGED <<envVars, adminVars, corsVars, sessionVars, vendorVars, proc, geminiVars, assistantVars, registryVars, counterVars,
                 promptVars>>

completionCatchRetrying(rec) ==
  IF rec.calls < 2
    THEN [rec EXCEPT !.calls = @ + 1]
    ELSE Respond(rec, 500, Fixed("completionTrouble"))

\* catch block of the completion handler
completionCatch(rec) == Respond(rec, 500, Fixed("completionTrouble"))

CompletionThrow(r) ==
  /\ proc = "running"
  /\ req[r].pc = "complete"
  /\ Step(r, completionCatch(req[r]))
  /\ UNCHANGED <<envVars, adminVars, corsVars, sessionVars, vendorVars, proc, geminiVars, assistantVars, registryVars, counterVars,
                 promptVars>>

----------------------------------------------------------------------------
(* POST /chat, Gemini backends *)

\* the checks at the head of the handler, and the TypeError of
\* userQuery.substring(...) on a content that is no string
validation(v, b) ==
  IF ~b.isArray \/ Len(b.items) = 0 THEN "invalidFormat"
  ELSE LET userMessage == Last(b.items)
       IN  IF userMessage.kind = "null" \/ userMessage.role # "user" THEN "invalidMessage"
           ELSE IF v = "beta" /\ userMessage.ctype # "string" THEN "invalidMessage"
           ELSE IF userMessage.ctype # "string" THEN "typeError"
           ELSE "ok"

countRequestSkipped(n) == n
countRequestLost(n) == IF n = 0 THEN 1 ELSE n

\* totalRequests++
countRequest(n) == n + 1

\* a thrown error reaches the catch block of the handler
Fail(r, rec, e) ==
  LET fb == fallbackReply(variant, e)
  IN  IF fb = "crash"
        THEN /\ proc' = "crashed"
             /\ Step(r, [rec EXCEPT !.pc = "dead"])
        ELSE /\ proc' = proc
             /\ Step(r, Respond(rec, 500, Fixed(fb)))

ChatGemini(r, b) ==
  /\ proc = "running"
  /\ variant \in GeminiVariants
  /\ FreeSlot(r)
  /\ totalRequests' = countRequest(totalRequests)
  /\ LET rec == [IdleReq EXCEPT !.body = b]
         val == validation(variant, b)
         i == IF needsInit(model)
                THEN initializeGemini(variant)
                ELSE [threw |-> FALSE, genAI |-> genAI, model |-> model,
                      knowledgeBase |-> knowledgeBase, loads |-> nLoads]
     IN  CASE val = "invalidFormat" ->
                /\ Step(r, Respond(rec, 400, Fixed("invalidFormat")))
                /\ UNCHANGED <<proc, geminiVars>>
           [] val = "invalidMessage" ->
                /\ Step(r, Respond(rec, 400, Fixed("invalidMessage")))
                /\ UNCHANGED <<proc, geminiVars>>
           [] val = "typeError" ->
                /\ Fail(r, rec, ErrNotAString)
                /\ UNCHANGED geminiVars
           [] OTHER ->
                LET userQuery == Last(b.items).content
                IN  /\ genAI' = i.genAI
                    /\ model' = i.model
                    /\ knowledgeBase' = i.knowledgeBase
                    /\ nLoads' = i.loads
                    /\ IF i.threw
                         THEN Fail(r, rec, ErrMissingKey)
                         ELSE /\ Step(r, [rec EXCEPT !.pc = "generate", !.query = userQuery,
                                            !.usedModel = i.model, !.calls = @ + 1,
                                            !.sent = systemPrompt(variant, i.knowledgeBase, userQuery)])
                              /\ proc' = proc
  /\ UNCHANGED <<envVars, adminVars, corsVars, sessionVars, vendorVars, assistantVars, registryVars, totalCost, promptVars>>

\* model.generateContent resolves and response.text() gives the reply
GenerateReturn(r, t) ==
  /\ proc = "running"
  /\ req[r].pc = "generate"
  /\ totalCost' = addCost(totalCost, variant, req[r].sent.prompt, t)
  /\ Step(r, Respond(req[r], 200, VendorReply(t)))
  /\ UNCHANGED <<envVars, adminVars, corsVars, sessionVars, vendorVars, proc, geminiVars, assistantVars, registryVars, totalRequests,
                 promptVars>>

\* the vendor call throws: catch of generateResponse, then catch of the handler
GenerateThrow(r, e) ==
  /\ proc = "running"
  /\ req[r].pc = "generate"
  /\ Fail(r, req[r], rethrown(variant, e))
  /\ UNCHANGED <<envVars, adminVars, corsVars, sessionVars, vendorVars, geminiVars, assistantVars, registryVars, counterVars,
                 promptVars>>

----------------------------------------------------------------------------
(* POST /admin/switch-model, Gemini backends *)

\* the handler has no await: it runs to its end in one step.  With no Gemini
\* client, genAI.getGenerativeModel throws a TypeError and the catch block
\* answers 500.
SwitchModel(newModel) ==
  /\ proc = "running"
  /\ variant \in GeminiVariants
  /\ IF newModel \notin validModels(variant)
       THEN /\ lastSwitch' = [name |-> newModel, status |-> 400, before |-> model]
            /\ model' = model
       ELSE IF ~genAI
         THEN /\ lastSwitch' = [name |-> newModel, status |-> 500, before |-> model]
              /\ model' = model
         ELSE /\ lastSwitch' = [name |-> newModel, status |-> 200, before |-> model]
              /\ model' = newModel
  /\ UNCHANGED <<envVars, corsVars, sessionVars, vendorVars, proc, genAI, knowledgeBase, nLoads, assistantVars,
                 registryVars, counterVars, req, promptVars>>

----------------------------------------------------------------------------
(* POST /chat, assistant backend *)

RunStatuses == {"queued", "running", "completed", "failed"}

\* userThreads.has(sessionId) ? reuse the handle : ask the vendor for a thread
lookupThread(rec) ==
  LET sessionId == generateSessionId(rec.client)
  IN  IF mapHas(userThreads, sessionId)
        THEN [rec EXCEPT !.key = sessionId, !.thread = mapGet(userThreads, sessionId),
                         !.pc = "msgCreate"]
        ELSE [rec EXCEPT !.key = sessionId, !.pc = "threadCreate"]

ChatAssistant(r, b, c) ==
  /\ proc = "running"
  /\ variant = "assistant"
  /\ FreeSlot(r)
  /\ totalRequests' = countRequest(totalRequests)
  /\ LET rec == [IdleReq EXCEPT !.body = b, !.client = c]
         val == validation(variant, b)
     IN  CASE val = "invalidFormat" ->
                Step(r, Respond(rec, 400, Fixed("invalidFormat")))
           [] val = "invalidMessage" ->
                Step(r, Respond(rec, 400, Fixed("invalidMessage")))
           [] val = "typeError" ->
                Step(r, Respond(rec, 500, Fixed("assistantTrouble")))
           [] OTHER ->
                LET withQuery == [rec EXCEPT !.query = Last(b.items).content]
                    next == IF assistant = 0
                              THEN [withQuery EXCEPT !.pc = "lazyInit"]
                              ELSE lookupThread(withQuery)
                IN  Step(r, next)
  /\ UNCHANGED <<envVars, adminVars, corsVars, sessionVars, vendorVars, proc, geminiVars, assistantVars, registryVars,
                 totalCost, promptVars>>

\* background initializeAssistant() of startServer: assistants.create resolves
BackgroundInitReturn ==
  /\ proc = "running"
  /\ bgInit = "pending"
  /\ bgInit' = "done"
  /\ nAssistants' = nAssistants + 1
  /\ assistant' = nAssistants + 1
  /\ UNCHANGED <<envVars, adminVars, corsVars, sessionVars, vendorVars, proc, geminiVars, registryVars, counterVars, req,
                 promptVars>>

\* ... or rejects; the .catch of startServer logs it
BackgroundInitThrow ==
  /\ proc = "running"
  /\ bgInit = "pending"
  /\ bgInit' = "done"
  /\ UNCHANGED <<envVars, adminVars, corsVars, sessionVars, vendorVars, proc, geminiVars, assistant, nAssistants, registryVars,
                 counterVars, req, promptVars>>

\* await initializeAssistant() of the handler resolves
LazyInitReturn(r) ==
  /\ proc = "running"
  /\ req[r].pc = "lazyInit"
  /\ nAssistants' = nAssistants + 1
  /\ assistant' = nAssistants + 1
  /\ Step(r, lookupThread(req[r]))
  /\ UNCHANGED <<envVars, adminVars, corsVars, sessionVars, vendorVars, proc, geminiVars, bgInit, registryVars, counterVars,
                 promptVars>>

\* openai.beta.threads.create() resolves: store the handle, then clean up
ThreadCreateReturn(r) ==
  /\ proc = "running"
  /\ req[r].pc = "threadCreate"
  /\ LET id == nThreads + 1
         stored == mapSet(userThreads, req[r].key, id)
         kept == cleanup(stored)
     IN  /\ nThreads' = id
         /\ userThreads' = kept
         /\ evicted' = evicted \cup (mapKeys(stored) \ mapKeys(kept))
         /\ insertedAt' = IF mapHas(userThreads, req[r].key)
                            THEN insertedAt
                            ELSE [insertedAt EXCEPT ![req[r].key] = id]
         /\ Step(r, [req[r] EXCEPT !.thread = id, !.pc = "msgCreate"])
  /\ UNCHANGED <<envVars, adminVars, corsVars, sessionVars, vendorVars, proc, geminiVars, assistantVars, counterVars, promptVars>>

\* The vendor's thread, as far as the handler reads it: messages.list returns
\* the messages newest first and the handler takes data[0].  A user message
\* is on the thread when messages.create resolves; the assistant message of a
\* run is on the thread when a retrieve reports the run completed.
NoMessageYet == [role |-> "none", run |-> 0]
newest(heads, thread) ==
  IF thread \in DOMAIN heads THEN heads[thread] ELSE NoMessageYet
posted(heads, thread, role, run) ==
  [t \in DOMAIN heads \cup {thread} |->
     IF t = thread THEN [role |-> role, run |-> run] ELSE heads[t]]
runSeen(heads, thread, st, run) ==
  IF st = "completed" THEN posted(heads, thread, "assistant", run) ELSE heads

\* threads.messages.create resolves
MessageCreateReturn(r) ==
  /\ proc = "running"
  /\ req[r].pc = "msgCreate"
  /\ Step(r, [req[r] EXCEPT !.pc = "runCreate"])
  /\ threadHead' = posted(threadHead, req[r].thread, "user", r)
  /\ UNCHANGED <<envVars, adminVars, corsVars, sessionVars, proc, geminiVars, assistantVars, registryVars, counterVars,
                 promptVars>>

\* threads.runs.create resolves
RunCreateReturn(r) ==
  /\ proc = "running"
  /\ req[r].pc = "runCreate"
  /\ Step(r, [req[r] EXCEPT !.pc = "retrieve"])
  /\ UNCHANGED <<envVars, adminVars, corsVars, sessionVars, vendorVars, proc, geminiVars, assistantVars, registryVars, counterVars,
                 promptVars>>

loopTestUnbounded(st, attempts) == st = "running"

\* while (runStatus.status === 'running' && attempts < maxAttempts)
loopTest(st, attempts) == st = "running" /\ attempts < MaxAttempts

afterRetrieveSilent(rec, st, attempts) ==
  LET seen == [rec EXCEPT !.runStatus = st, !.attempts = attempts]
  IN  IF loopTest(st, attempts) THEN [seen EXCEPT !.pc = "sleep"]
      ELSE IF st # "completed" THEN [seen EXCEPT !.pc = "done"]
      ELSE [seen EXCEPT !.pc = "list"]

afterRetrieveRetry(rec, st, attempts) ==
  LET seen == [rec EXCEPT !.runStatus = st, !.attempts = attempts]
  IN  IF loopTest(st, attempts) THEN [seen EXCEPT !.pc = "sleep"]
      ELSE IF st = "failed" THEN [seen EXCEPT !.pc = "runCreate"]
      ELSE IF st # "completed" THEN Respond(seen, 200, Fixed("processing"))
      ELSE [seen EXCEPT !.pc = "list"]

\* the loop test, and what follows the loop when it ends
afterRetrieve(rec, st, attempts) ==
  LET seen == [rec EXCEPT !.runStatus = st, !.attempts = attempts]
  IN  IF loopTest(st, attempts) THEN [seen EXCEPT !.pc = "sleep"]
      ELSE IF st # "completed" THEN Respond(seen, 200, Fixed("processing"))
      ELSE [seen EXCEPT !.pc = "list"]

\* the first threads.runs.retrieve resolves
RetrieveReturn(r, st) ==
  /\ proc = "running"
  /\ req[r].pc = "retrieve"
  /\ Step(r, afterRetrieve(req[r], st, 0))
  /\ threadHead' = runSeen(threadHead, req[r].thread, st, r)
  /\ UNCHANGED <<envVars, adminVars, corsVars, sessionVars, proc, geminiVars, assistantVars, registryVars, counterVars,
                 promptVars>>

\* the one-second timer of the loop body fires; retrieve is called again
SleepDone(r) ==
  /\ proc = "running"
  /\ req[r].pc = "sleep"
  /\ Step(r, [req[r] EXCEPT !.pc = "poll"])
  /\ UNCHANGED <<envVars, adminVars, corsVars, sessionVars, vendorVars, proc, geminiVars, assistantVars, registryVars, counterVars,
                 promptVars>>

\* a retrieve of the loop body resolves; attempts++
PollReturn(r, st) ==
  /\ proc = "running"
  /\ req[r].pc = "poll"
  /\ Step(r, afterRetrieve(req[r], st, req[r].attempts + 1))
  /\ threadHead' = runSeen(threadHead, req[r].thread, st, r)
  /\ UNCHANGED <<envVars, adminVars, corsVars, sessionVars, proc, geminiVars, assistantVars, registryVars, counterVars,
                 promptVars>>

\* threads.messages.list resolves with an assistant message first
ListReturn(r, t) ==
  /\ proc = "running"
  /\ req[r].pc = "list"
  /\ newest(threadHead, req[r].thread).role = "assistant"
  /\ totalCost' = addCost(totalCost, variant, req[r].query, t)
  /\ Step(r, Respond([req[r] EXCEPT !.source = newest(threadHead, req[r].thread).run],
                      200, VendorReply(t)))
  /\ UNCHANGED <<envVars, adminVars, corsVars, sessionVars, vendorVars, proc, geminiVars, assistantVars, registryVars, totalRequests,
                 promptVars>>

\* ... or with no message, or with one that is not the assistant's
ListNoAssistantMessage(r) ==
  /\ proc = "running"
  /\ req[r].pc = "list"
  /\ newest(threadHead, req[r].thread).role # "assistant"
  /\ Step(r, Respond(req[r], 500, Fixed("assistantTrouble")))
  /\ UNCHANGED <<envVars, adminVars, corsVars, sessionVars, vendorVars, proc, geminiVars, assistantVars, registryVars, counterVars,
                 promptVars>>

AssistantAwaits ==
  {"lazyInit", "threadCreate", "msgCreate", "runCreate", "retrieve", "poll", "list"}

\* any awaited vendor call rejects: the catch block answers 500
AssistantThrow(r) ==
  /\ proc = "running"
  /\ req[r].pc \in AssistantAwaits
  /\ Step(r, Respond(req[r], 500, Fixed("assistantTrouble")))
  /\ UNCHANGED <<envVars, adminVars, corsVars, sessionVars, vendorVars, proc, geminiVars, assistantVars, registryVars, counterVars,
                 promptVars>>

----------------------------------------------------------------------------
(* The process *)

Next ==
  \/ StartServer
  \/ \E r \in Slots, b \in Bodies :
       \/ ChatCompletion(r, b)
       \/ ChatGemini(r, b)
       \/ \E c \in TwoClients : ChatAssistant(r, b, c)
  \/ \E r \in Slots, t \in Replies :
       \/ CompletionReturn(r, t)
       \/ GenerateReturn(r, t)
       \/ ListReturn(r, t)
  \/ \E r \in Slots : CompletionThrow(r)
  \/ \E r \in Slots, e \in VendorErrors : GenerateThrow(r, e)
  \/ \E newModel \in RequestedModels : SwitchModel(newModel)
  \/ BackgroundInitReturn
  \/ BackgroundInitThrow
  \/ \E r \in Slots :
       \/ LazyInitReturn(r)
       \/ ThreadCreateReturn(r)
       \/ MessageCreateReturn(r)
       \/ RunCreateReturn(r)
       \/ SleepDone(r)
       \/ ListNoAssistantMessage(r)
       \/ AssistantThrow(r)
  \/ \E r \in Slots, st \in RunStatuses :
       \/ RetrieveReturn(r, st)
       \/ PollReturn(r, st)

Spec == Init /\ [][Next]_vars

\* the awaited call (or timer) that the handler of slot r is waiting for
\* settles: it returns a value or throws
Settles(r) ==
  \/ \E t \in Replies :
       \/ CompletionReturn(r, t)
       \/ GenerateReturn(r, t)
       \/ ListReturn(r, t)
  \/ CompletionThrow(r)
  \/ \E e \in VendorErrors : GenerateThrow(r, e)
  \/ LazyInitReturn(r)
  \/ ThreadCreateReturn(r)
  \/ MessageCreateReturn(r)
  \/ RunCreateReturn(r)
  \/ SleepDone(r)
  \/ ListNoAssistantMessage(r)
  \/ AssistantThrow(r)
  \/ \E st \in RunStatuses :
       \/ RetrieveReturn(r, st)
       \/ PollReturn(r, st)

\* a well-formed body, an empty one, and one whose content is a number
FairBodies == {BodyUser(QTravel), BodyEmpty, BodyNumber}

\* the process with fewer kinds of request
NextFair ==
  \/ StartServer
  \/ \E r \in Slots, b \in FairBodies :
       \/ ChatCompletion(r, b)
       \/ ChatGemini(r, b)
       \/ \E c \in TwoClients : ChatAssistant(r, b, c)
  \/ \E newModel \in RequestedModels : SwitchModel(newModel)
  \/ BackgroundInitReturn
  \/ BackgroundInitThrow
  \/ \E r \in Slots : Settles(r)

\* ... under the assumption that every awaited call settles
SpecFair ==
  Init /\ [][NextFair]_vars /\ \A r \in Slots : WF_vars(Settles(r))

----------------------------------------------------------------------------
(* GET /health and GET /stats: the metrics snapshot *)

health ==
  [ knowledge_loaded |-> Len(knowledgeBase) > 0,
    total_requests |-> totalRequests,
    estimated_total_cost |-> totalCost,
    api_ready |-> genAI /\ model # "none" ]

stats ==
  [ total_requests |-> totalRequests,
    estimated_total_cost |-> totalCost,
    active_threads |-> Len(userThreads) ]

----------------------------------------------------------------------------
(* The prompt builder on its own: every query up to MaxQueryLen *)

Alphabet == {"t", "r", "i", "p", "T", "x"}

AllQueries == UNION {[1..n -> Alphabet] : n \in 0..MaxQueryLen}

InitPrompt ==
  /\ variant = "smart"
  /\ proc = "running"
  /\ envApiKey = TRUE
  /\ envFile \in {FileAbsent, FilePresent}
  /\ genAI = TRUE
  /\ model = DefaultModel
  /\ knowledgeBase = IF envFile.exists THEN envFile.text ELSE KnowledgeFallback(variant)
  /\ nLoads = 1
  /\ assistant = 0
  /\ bgInit = "idle"
  /\ nAssistants = 0
  /\ userThreads = <<>>
  /\ nThreads = 0
  /\ totalRequests = 0
  /\ totalCost = 0
  /\ req = [r \in Slots |-> IdleReq]
  /\ evicted = {}
  /\ insertedAt = [k \in SessionKeys |-> 0]
  /\ lastSwitch = NoSwitch
  /\ threadHead = <<>>
  /\ pQuery \in AllQueries
  /\ pSent = NoSent
  /\ pError = NoError
  /\ pCaught = NoError
  /\ pReply = "none"
  /\ pDeployment = NoDeployment
  /\ pOrigin = NoOrigin
  /\ pCors = NoCors
  /\ pClients = NoClients
  /\ pKeys = NoKeys

\* generateResponse up to the vendor call
BuildPrompt ==
  /\ pSent = NoSent
  /\ pSent' = systemPrompt(variant, knowledgeBase, pQuery)
  /\ UNCHANGED <<envVars, adminVars, corsVars, sessionVars, vendorVars, proc, geminiVars, assistantVars, registryVars, counterVars,
                 req, pQuery, pError, pCaught, pReply>>

NextPrompt == BuildPrompt

SpecPrompt == InitPrompt /\ [][NextPrompt]_vars

----------------------------------------------------------------------------
(* The assistant backend from a registry that earlier requests have filled *)

\* registries that requests of distinct clients, handled one after the other,
\* leave behind: distinct keys, handles in the order of creation
RECURSIVE FilledRegistries(_)
FilledRegistries(n) ==
  IF n = 0 THEN {<<>>}
  ELSE {Append(m, [key |-> k, id |-> n]) :
          m \in {x \in FilledRegistries(n - 1) : Len(x) = n - 1},
          k \in SessionKeys} \cup FilledRegistries(n - 1)

WarmRegistries ==
  {m \in FilledRegistries(ThreadCap) : \A i, j \in 1..Len(m) : m[i].key = m[j].key => i = j}

\* one valid and one invalid body
RegistryBodies == {BodyUser(QGeneral), BodyEmpty}

InitRegistry ==
  /\ variant = "assistant"
  /\ proc = "running"
  /\ envApiKey = TRUE
  /\ envFile = FileAbsent
  /\ genAI = FALSE
  /\ model = "none"
  /\ knowledgeBase = <<>>
  /\ nLoads = 0
  /\ userThreads \in WarmRegistries
  /\ nThreads = Len(userThreads)
  /\ \/ assistant = 1 /\ bgInit = "done" /\ nAssistants = 1
     \/ assistant = 0 /\ bgInit = "pending" /\ nAssistants = 0 /\ userThreads = <<>>
  /\ totalRequests = Len(userThreads)
  /\ totalCost = 0
  /\ req = [r \in Slots |-> IdleReq]
  /\ evicted = {}
  /\ insertedAt = [k \in SessionKeys |->
                     IF mapHas(userThreads, k) THEN mapGet(userThreads, k) ELSE 0]
  /\ lastSwitch = NoSwitch
  /\ threadHead = <<>>
  /\ pQuery = <<>>
  /\ pSent = NoSent
  /\ pError = NoError
  /\ pCaught = NoError
  /\ pReply = "none"
  /\ pDeployment = NoDeployment
  /\ pOrigin = NoOrigin
  /\ pCors = NoCors
  /\ pClients = NoClients
  /\ pKeys = NoKeys

NextRegistry ==
  \/ \E r \in Slots, b \in RegistryBodies, c \in Clients : ChatAssistant(r, b, c)
  \/ \E r \in Slots, t \in Replies : ListReturn(r, t)
  \/ BackgroundInitReturn
  \/ BackgroundInitThrow
  \/ \E r \in Slots :
       \/ LazyInitReturn(r)
       \/ ThreadCreateReturn(r)
       \/ MessageCreateReturn(r)
       \/ RunCreateReturn(r)
       \/ SleepDone(r)
       \/ ListNoAssistantMessage(r)
       \/ AssistantThrow(r)
  \/ \E r \in Slots, st \in RunStatuses :
       \/ RetrieveReturn(r, st)
       \/ PollReturn(r, st)

SpecRegistry == InitRegistry /\ [][NextRegistry]_vars

----------------------------------------------------------------------------
(* The catch blocks on their own: every mix of the texts they look for *)

PatternSets == SUBSET {PatApiKey, PatQuota, PatModel, PatApiKeyUnderscore}

RECURSIVE Glue(_)
Glue(ps) ==
  IF ps = {} THEN <<"!">>
  ELSE LET p == CHOOSE x \in ps : TRUE
       IN  <<"e", " ">> \o p \o <<" ">> \o Glue(ps \ {p})

ThrownValues == {Err(Glue(ps)) : ps \in PatternSets} \cup {NoMessage}

InitCatch ==
  /\ variant \in Variants
  /\ proc = "running"
  /\ envApiKey = TRUE
  /\ envFile = FileAbsent
  /\ genAI = (variant \in GeminiVariants)
  /\ model = IF variant \in GeminiVariants THEN DefaultModel ELSE "none"
  /\ knowledgeBase = IF variant \in GeminiVariants THEN KnowledgeFallback(variant) ELSE <<>>
  /\ nLoads = IF variant \in GeminiVariants THEN 1 ELSE 0
  /\ assistant = 0
  /\ bgInit = "idle"
  /\ nAssistants = 0
  /\ userThreads = <<>>
  /\ nThreads = 0
  /\ totalRequests = 0
  /\ totalCost = 0
  /\ req = [r \in Slots |-> IdleReq]
  /\ evicted = {}
  /\ insertedAt = [k \in SessionKeys |-> 0]
  /\ lastSwitch = NoSwitch
  /\ threadHead = <<>>
  /\ pQuery = <<>>
  /\ pSent = NoSent
  /\ pError \in ThrownValues
  /\ pCaught = NoError
  /\ pReply = "none"
  /\ pDeployment = NoDeployment
  /\ pOrigin = NoOrigin
  /\ pCors = NoCors
  /\ pClients = NoClients
  /\ pKeys = NoKeys

\* a statement of the handler's try block throws pError
CatchDirect ==
  /\ pReply = "none"
  /\ pCaught' = pError
  /\ pReply' = catchReply(variant, pError)
  /\ UNCHANGED <<envVars, adminVars, corsVars, sessionVars, vendorVars, proc, geminiVars, assistantVars, registryVars, counterVars,
                 req, pQuery, pSent, pError>>

\* the vendor call of generateResponse throws pError: its catch block
\* throws on, the handler catches that
CatchRethrown ==
  /\ pReply = "none"
  /\ variant \in GeminiVariants
  /\ pCaught' = rethrown(variant, pError)
  /\ pReply' = catchReply(variant, rethrown(variant, pError))
  /\ UNCHANGED <<envVars, adminVars, corsVars, sessionVars, vendorVars, proc, geminiVars, assistantVars, registryVars, counterVars,
                 req, pQuery, pSent, pError>>

NextCatch == CatchDirect \/ CatchRethrown

SpecCatch == InitCatch /\ [][NextCatch]_vars

----------------------------------------------------------------------------
(* The CORS middleware on its own: every backend file, a range of origins *)

InitCors ==
  /\ pDeployment \in CorsDeployments
  /\ pOrigin \in Origins
  /\ pCors = NoCors
  /\ pClients = NoClients
  /\ pKeys = NoKeys
  /\ variant = pDeployment.variant
  /\ proc = "running"
  /\ envApiKey = TRUE
  /\ envFile = FilePresent
  /\ genAI = (variant \in GeminiVariants)
  /\ model = IF variant \in GeminiVariants THEN DefaultModel ELSE "none"
  /\ knowledgeBase = IF variant = "assistant" THEN <<>> ELSE envFile.text
  /\ nLoads = IF variant \in GeminiVariants THEN 1 ELSE 0
  /\ assistant = 0
  /\ bgInit = "idle"
  /\ nAssistants = 0
  /\ userThreads = <<>>
  /\ nThreads = 0
  /\ totalRequests = 0
  /\ totalCost = 0
  /\ req = [r \in Slots |-> IdleReq]
  /\ evicted = {}
  /\ insertedAt = [k \in SessionKeys |-> 0]
  /\ lastSwitch = NoSwitch
  /\ threadHead = <<>>
  /\ pQuery = <<>>
  /\ pSent = NoSent
  /\ pError = NoError
  /\ pCaught = NoError
  /\ pReply = "none"

\* app.use(cors(...)) runs on the request
CorsCheck ==
  /\ ~pCors.checked
  /\ pCors' = corsMiddleware(pDeployment.origin, pOrigin)
  /\ UNCHANGED <<envVars, adminVars, proc, geminiVars, assistantVars, registryVars,
                 counterVars, req, promptVars, sessionVars, vendorVars, pDeployment, pOrigin>>

NextCors == CorsCheck

SpecCors == InitCors /\ [][NextCors]_vars

----------------------------------------------------------------------------
(* The session key of the assistant backend, as a function of two clients *)

InitSession ==
  /\ variant = "assistant"
  /\ proc = "running"
  /\ envApiKey = TRUE
  /\ envFile = FileAbsent
  /\ genAI = FALSE
  /\ model = "none"
  /\ knowledgeBase = <<>>
  /\ nLoads = 0
  /\ assistant = 0
  /\ bgInit = "idle"
  /\ nAssistants = 0
  /\ userThreads = <<>>
  /\ nThreads = 0
  /\ totalRequests = 0
  /\ totalCost = 0
  /\ req = [r \in Slots |-> IdleReq]
  /\ evicted = {}
  /\ insertedAt = [k \in SessionKeys |-> 0]
  /\ lastSwitch = NoSwitch
  /\ threadHead = <<>>
  /\ pQuery = <<>>
  /\ pSent = NoSent
  /\ pError = NoError
  /\ pCaught = NoError
  /\ pReply = "none"
  /\ pDeployment = NoDeployment
  /\ pOrigin = NoOrigin
  /\ pCors = NoCors
  /\ pClients \in [a : SessionClients, b : SessionClients]
  /\ pKeys = NoKeys

\* generateSessionId(req) runs for each of the two requests
SessionIds ==
  /\ ~pKeys.made
  /\ pKeys' = [made |-> TRUE, a |-> generateSessionId(pClients.a),
                b |-> generateSessionId(pClients.b)]
  /\ UNCHANGED <<envVars, adminVars, corsVars, vendorVars, proc, geminiVars, assistantVars,
                 registryVars, counterVars, req, promptVars, pClients>>

NextSession == SessionIds

SpecSession == InitSession /\ [][NextSession]_vars

----------------------------------------------------------------------------
(* The Gemini backends alone, with the knowledge file absent, present or empty *)

InitGemini ==
  /\ variant \in GeminiVariants
  /\ proc = "boot"
  /\ envApiKey \in BOOLEAN
  /\ envFile \in {FileAbsent, FilePresent, FileEmpty}
  /\ genAI = FALSE
  /\ model = "none"
  /\ knowledgeBase = <<>>
  /\ nLoads = 0
  /\ assistant = 0
  /\ bgInit = "idle"
  /\ nAssistants = 0
  /\ userThreads = <<>>
  /\ nThreads = 0
  /\ totalRequests = 0
  /\ totalCost = 0
  /\ req = [r \in Slots |-> IdleReq]
  /\ evicted = {}
  /\ insertedAt = [k \in SessionKeys |-> 0]
  /\ lastSwitch = NoSwitch
  /\ threadHead = <<>>
  /\ pQuery = <<>>
  /\ pSent = NoSent
  /\ pError = NoError
  /\ pCaught = NoError
  /\ pReply = "none"
  /\ pDeployment = NoDeployment
  /\ pOrigin = NoOrigin
  /\ pCors = NoCors
  /\ pClients = NoClients
  /\ pKeys = NoKeys

\* what model.generateContent may reject with: an Error, or any other value
ThrownByVendor == VendorErrors \cup {NoMessage}

NextGemini ==
  \/ StartServer
  \/ \E r \in Slots, b \in Bodies : ChatGemini(r, b)
  \/ \E r \in Slots, t \in Replies : GenerateReturn(r, t)
  \/ \E r \in Slots, e \in ThrownByVendor : GenerateThrow(r, e)
  \/ \E newModel \in RequestedModels : SwitchModel(newModel)

SpecGemini == InitGemini /\ [][NextGemini]_vars

----------------------------------------------------------------------------
(* Claims *)

Answered(r) == req[r].pc = "done"

LastEntry(r) == Last(req[r].body.items)

\* C1: in every backend, a POST /chat whose `messages` is no array, or is an
\* empty array, is answered with HTTP 400.
C1_BadMessagesRejected ==
  \A r \in Slots :
    (Answered(r) /\ (~req[r].body.isArray \/ Len(req[r].body.items) = 0))
      => req[r].status = 400

\* C2: in every backend, a POST /chat whose `messages` array is non-empty and
\* whose last entry has a role other than "user" is answered with HTTP 400.
C2_LastRoleRejected ==
  \A r \in Slots :
    (/\ Answered(r)
     /\ req[r].body.isArray
     /\ Len(req[r].body.items) > 0
     /\ LastEntry(r).kind = "object"
     /\ LastEntry(r).role # "user")
      => req[r].status = 400

\* C3: in every backend that validates the last message, a POST /chat whose
\* last message has role "user" and a content that is no string is answered
\* with HTTP 400, not with 500.
C3_NonStringContentRejected ==
  \A r \in Slots :
    (/\ Answered(r)
     /\ variant \in GeminiVariants \cup {"assistant"}
     /\ req[r].body.isArray
     /\ Len(req[r].body.items) > 0
     /\ LastEntry(r).kind = "object"
     /\ LastEntry(r).role = "user"
     /\ LastEntry(r).ctype # "string")
      => req[r].status = 400

\* some keyword occurs in the query at some offset, letter case ignored
MatchesAt(q, k, off) ==
  /\ off + Len(k) <= Len(q)
  /\ \A j \in 1..Len(k) : LowerChar(q[off + j]) = k[j]

HasKeyword(q) ==
  \E k \in travelKeywords : \E off \in 0..Len(q) : MatchesAt(q, k, off)

C5_PromptHoldsKnowledge ==
  \A r \in Slots :
    (variant \in GeminiVariants /\ req[r].sent.template \in {"travel", "single"})
      => Contains(req[r].sent.prompt, knowledgeBase)

\* a travel prompt is with the vendor while the knowledge file's text is loaded
C5_Witness ==
  /\ variant = "smart"
  /\ knowledgeBase = KnowledgeFileText
  /\ \E r \in Slots : req[r].pc = "generate" /\ req[r].sent.template = "travel"

HasThread(r) == req[r].pc # "idle" /\ req[r].thread # 0

\* C6: two /chat requests carrying the same session key obtain the same thread
\* handle as long as the key is not evicted between them, also when the two
\* requests overlap in time.
C6_SameKeySameThread ==
  \A r1, r2 \in Slots :
    (/\ HasThread(r1)
     /\ HasThread(r2)
     /\ req[r1].key = req[r2].key
     /\ req[r1].key \notin evicted)
      => req[r1].thread = req[r2].thread

\* the step of slot r stores a handle under a key the registry does not hold
InsertsNewKey(r) ==
  /\ req[r].pc = "threadCreate"
  /\ req'[r].pc = "msgCreate"
  /\ ~mapHas(userThreads, req[r].key)

\* C7: when a new key is inserted into a registry that holds as many keys as
\* the cap, exactly one earlier key is evicted, and it is the one inserted
\* first among those present; a lookup hit does not change that order.
C7_EvictsOldestInserted ==
  [][\A r \in Slots :
       (InsertsNewKey(r) /\ Len(userThreads) = ThreadCap) =>
         LET before == mapKeys(userThreads)
             after == mapKeys(userThreads')
             gone == before \ after
         IN  /\ req[r].key \in after
             /\ Cardinality(gone) = 1
             /\ \A e \in gone : \A o \in before : insertedAt[e] <= insertedAt[o]
             /\ \A i \in 1..Len(userThreads') :
                  userThreads'[i].key # req[r].key
                    => \E j \in 1..Len(userThreads) : userThreads[j] = userThreads'[i]]_vars

\* a key was evicted after a request had looked its handle up, and a later
\* one is still registered
C7_Witness ==
  /\ Len(userThreads) = ThreadCap
  /\ \E r \in Slots :
       /\ req[r].key \in evicted
       /\ HasThread(r)
       /\ req[r].thread = insertedAt[req[r].key]
       /\ req[r].thread < nThreads
       /\ \A i \in 1..Len(userThreads) : userThreads[i].id > req[r].thread

NonTerminal == {"queued", "running"}

\* C8: in the assistant backend, when the run status has not become terminal
\* within the attempt budget, the handler stops polling and answers with the
\* fixed "processing" reply; no request polls beyond the budget.
C8_PollingIsBounded ==
  \A r \in Slots :
    /\ req[r].attempts <= MaxAttempts
    /\ req[r].pc \in {"sleep", "poll"} => req[r].attempts < MaxAttempts
    /\ (req[r].runStatus \in NonTerminal /\ req[r].attempts = MaxAttempts)
         => /\ req[r].pc = "done"
            /\ req[r].status = 200
            /\ req[r].reply = Fixed("processing")
    /\ (req[r].pc = "done" /\ req[r].runStatus \in NonTerminal /\ req[r].status # 500)
         => /\ req[r].status = 200
            /\ req[r].reply = Fixed("processing")

\* the budget was used up on a run that stayed non-terminal
C8_Witness ==
  \E r \in Slots :
    /\ req[r].pc = "done"
    /\ req[r].attempts = MaxAttempts
    /\ req[r].runStatus = "running"
    /\ req[r].reply = Fixed("processing")

HasCounters == variant \in GeminiVariants \cup {"assistant"}

Successful == {r \in Slots : Answered(r) /\ req[r].status = 200}
Received == {r \in Slots : req[r].pc # "idle"}

\* C9: after N successful /chat calls, the total_requests counter that
\* /health and /stats report equals N.
C9_CountsSuccessfulCalls ==
  (HasCounters /\ \A r \in Received : Answered(r))
    => /\ health.total_requests = Cardinality(Successful)
       /\ stats.total_requests = Cardinality(Successful)

\* C9 as amended: after N /chat calls, whatever their outcome and whether
\* answered yet or not, the total_requests counter that /health and /stats
\* report equals N.
C9_CountsReceivedCalls ==
  HasCounters
    => /\ health.total_requests = Cardinality(Received)
       /\ stats.total_requests = Cardinality(Received)

\* a successful and a rejected call have both been counted
C9_Witness ==
  /\ HasCounters
  /\ \E r1, r2 \in Slots :
       /\ Answered(r1) /\ req[r1].status = 200
       /\ Answered(r2) /\ req[r2].status = 400
  /\ health.total_requests = 2

\* C10: the cumulative estimated cost is never negative and never decreases,
\* under any sequence or interleaving of requests; it is never reset.
C10_CostMonotone ==
  [][/\ totalCost >= 0
     /\ totalCost' >= totalCost
     /\ health.estimated_total_cost' >= health.estimated_total_cost]_vars

\* two requests have each added their estimate
C10_Witness ==
  /\ \A r \in Slots : Answered(r) /\ req[r].reply.fixed = "vendor"
  /\ totalCost > 0
  /\ \E r \in Slots :
       totalCost > estimatedCost(variant, IF variant = "assistant"
                                            THEN req[r].query
                                            ELSE req[r].sent.prompt, req[r].reply.text)

\* the reply the claimed order of tests picks for a message
ClaimedReply(m) ==
  IF Contains(m, PatApiKey) THEN "config"
  ELSE IF Contains(m, PatQuota) THEN "busy"
  ELSE IF Contains(m, PatModel) THEN "updating"
  ELSE "generic"

\* C11: in every backend, the reply of the 500 response is chosen from the
\* caught error's message: "API key" gives the config reply, else "quota" the
\* busy reply, else "model" the updating reply, else the generic reply.
C11_FallbackBySubstring ==
  (pReply # "none" /\ pCaught.hasMessage) => pReply = ClaimedReply(pCaught.message)

\* C12: POST /admin/switch-model changes the active model exactly when the
\* requested name is on the allow-list: a listed name is answered 200 and is
\* the active model from then on, used by every generation started before the
\* next switch; an unlisted name is answered 400 and the model stays as it was.
C12_SwitchIffListed ==
  /\ [](lastSwitch.status # 0 =>
          IF lastSwitch.name \in validModels(variant)
            THEN lastSwitch.status = 200 /\ model = lastSwitch.name
            ELSE lastSwitch.status = 400 /\ model = lastSwitch.before)
  /\ [][\A r \in Slots :
          (req[r].pc = "idle" /\ req'[r].pc = "generate" /\ lastSwitch.status = 200)
            => req'[r].usedModel = lastSwitch.name]_vars

\* the request goes on to its route and, when it names an origin, the
\* response allows that origin
Passes == pCors.handled /\ (pCors.allowOrigin \/ ~pOrigin.present)

FixedReplies ==
  {"invalidFormat", "invalidMessage", "config", "busy", "updating", "generic",
   "completionTrouble", "assistantTrouble", "processing"}

\* the one response of a finished handler: 200 with the vendor's text or the
\* fixed processing text, or 400/500 with a fixed text
WellAnswered(r) ==
  /\ req[r].responses = 1
  /\ req[r].status \in {200, 400, 500}
  /\ req[r].reply.fixed \in FixedReplies \cup {"vendor"}
  /\ req[r].status # 200 => req[r].reply.fixed \in FixedReplies \ {"processing"}
  /\ req[r].status = 200 => req[r].reply.fixed \in {"vendor", "processing"}

C15_PersonaAtIndexZero ==
  \A r \in Slots :
    (variant \in CompletionVariants /\ req[r].sent.template = "messages") =>
      LET items == req[r].body.items
          msgs == req[r].sent.msgs
          persona == PersonaSystemMsg(variant, knowledgeBase)
      IN  /\ Len(msgs) > 0
          /\ msgs[1] = persona
          /\ IF Len(items) > 0 /\ items[1].role = "system"
               THEN Len(msgs) = Len(items)
               ELSE msgs = <<persona>> \o items

ReadsKnowledgeFile == variant \in CompletionVariants \cup GeminiVariants

\* C16: in every backend that reads a knowledge file, when the file is absent
\* at startup the fixed fallback text takes its place and the process keeps
\* running and serving requests.
C16_FallbackWhenFileAbsent ==
  (ReadsKnowledgeFile /\ proc # "boot" /\ ~envFile.exists /\ envApiKey)
    => /\ proc = "running"
       /\ knowledgeBase = KnowledgeFallback(variant)

\* C17: in the assistant backend the session registry never holds more
\* entries than the cap, in any state between handler steps and under any
\* interleaving of requests.
C17_RegistryWithinCap ==
  /\ Len(userThreads) <= ThreadCap
  /\ stats.active_threads <= ThreadCap
  /\ Cardinality(mapKeys(userThreads)) = Len(userThreads)

\* the registry is full after an insert that had to evict, while another
\* request is still waiting for its thread
C17_Witness ==
  /\ Len(userThreads) = ThreadCap
  /\ evicted # {}
  /\ \E r \in Slots : req[r].pc = "threadCreate" /\ ~mapHas(userThreads, req[r].key)

\* the step of slot r is the return of threads.create()
StoresHandle(r) == req[r].pc = "threadCreate" /\ req'[r].pc = "msgCreate"

\* C18: a registry entry is removed only by the eviction that goes with the
\* insertion of a new key into a full registry; lookup hits, rejected
\* requests, vendor errors, failed runs, poll timeouts and the passing of
\* time leave the registry as it is.
C18_RemovedOnlyByEviction ==
  [][/\ (mapKeys(userThreads) \ mapKeys(userThreads') # {})
          => \E r \in Slots : InsertsNewKey(r) /\ Len(userThreads) = ThreadCap
     /\ (\A r \in Slots : ~StoresHandle(r)) => userThreads' = userThreads]_vars

\* with entries registered, one request has timed out polling and another
\* has met a vendor error after it had its thread
C18_Witness ==
  /\ Len(userThreads) = ThreadCap
  /\ \E r1, r2 \in Slots :
       /\ req[r1].pc = "done" /\ req[r1].reply = Fixed("processing")
       /\ req[r1].attempts = MaxAttempts
       /\ mapHas(userThreads, req[r1].key)
       /\ req[r2].pc = "done" /\ req[r2].status = 500 /\ req[r2].thread # 0
       /\ mapHas(userThreads, req[r2].key)

\* C19: in the assistant backend, for every non-terminal run status, queued
\* as well as running, the handler keeps polling until the status is terminal
\* or the attempt budget is used up; it never gives up earlier.
C19_PollsEveryNonTerminalStatus ==
  \A r \in Slots :
    (req[r].pc = "done" /\ req[r].runStatus \in NonTerminal /\ req[r].status = 200)
      => req[r].attempts = MaxAttempts

\* C20: when the run ends with status failed, the client gets the same fixed
\* processing reply as on a timeout, without the vendor's failure detail, and
\* the handler issues no further run.
C20_FailedRunGetsProcessingReply ==
  \A r \in Slots :
    req[r].runStatus = "failed" =>
      /\ req[r].pc = "done"
      /\ req[r].responses = 1
      /\ req[r].status = 200
      /\ req[r].reply = Fixed("processing")
      /\ req[r].reply.text = <<>>

\* a run was seen running, then failed, and the request is answered
C20_Witness ==
  \E r \in Slots :
    /\ req[r].runStatus = "failed"
    /\ req[r].attempts > 0
    /\ req[r].pc = "done"
    /\ req[r].reply = Fixed("processing")

\* the request was answered 400
Rejected(r) == Answered(r) /\ req[r].status = 400

C22_KnowledgeWrittenOnce ==
  [][(variant \in GeminiVariants /\ nLoads >= 1)
       => (knowledgeBase' = knowledgeBase /\ nLoads' = nLoads)]_vars

\* after the load, a chat was answered with the vendor's reply and a switch
\* of model succeeded
C22_Witness ==
  /\ variant \in GeminiVariants
  /\ nLoads = 1
  /\ knowledgeBase = KnowledgeFileText
  /\ lastSwitch.status = 200
  /\ \E r \in Slots : Answered(r) /\ req[r].status = 200

\* C23: two requests get the same session key only if they come from the same
\* address with the same User-Agent; in particular the same address with two
\* User-Agent values gives two keys.
C23_KeySharedOnlyBySameClient ==
  (pKeys.made /\ pKeys.a = pKeys.b) => pClients.a = pClients.b

\* C24: no /chat request terminates the process: whatever the vendor call
\* throws, with or without a message, a running process stays running.
C24_ChatNeverKillsProcess ==
  [][proc = "running" => proc' = "running"]_vars

\* C25: in the assistant backend every request that answers with the vendor's
\* text answers with the assistant message of its own run, also when another
\* request with the same session key is in progress on the same thread.
C25_ReplyIsOwnRunsMessage ==
  \A r \in Slots :
    (variant = "assistant" /\ Answered(r) /\ req[r].status = 200
       /\ req[r].reply.fixed = "vendor")
      => req[r].source = r

\* C26: in the assistant backend at most one vendor assistant is created in
\* the life of the process, whatever the order of the background and the
\* lazy initialization.
C26_AtMostOneAssistant ==
  variant = "assistant" => nAssistants <= 1

AnsweredWith(st) == {r \in Slots : Answered(r) /\ req[r].status = st}
InFlight == {r \in Slots : req[r].pc \notin {"idle", "done"}}

\* C27: in every state total_requests is the number of /chat requests whose
\* handling has begun: those answered 200, 400 or 500 and those still being
\* handled each count exactly once.
C27_CountsEveryBegunRequest ==
  HasCounters =>
    totalRequests = Cardinality(AnsweredWith(200)) + Cardinality(AnsweredWith(400))
                      + Cardinality(AnsweredWith(500)) + Cardinality(InFlight)

\* two overlapping requests were both counted: one was answered 500 while
\* the other is still with the vendor
C27_Witness ==
  /\ HasCounters
  /\ totalRequests = 2
  /\ Cardinality(AnsweredWith(500)) = 1
  /\ Cardinality(InFlight) = 1

\* the estimate of one request: made only when it answered 200 with the
\* vendor's reply
Estimate(r) ==
  IF Answered(r) /\ req[r].status = 200 /\ req[r].reply.fixed = "vendor"
    THEN estimatedCost(variant,
                       IF variant = "assistant" THEN req[r].query ELSE req[r].sent.prompt,
                       req[r].reply.text)
    ELSE 0

RECURSIVE SumOfEstimates(_)
SumOfEstimates(S) ==
  IF S = {} THEN 0
  ELSE LET r == CHOOSE x \in S : TRUE
       IN  Estimate(r) + SumOfEstimates(S \ {r})

\* C28: the cumulative cost is the sum of the estimates of the requests that
\* answered 200 with the vendor's reply; a request answered 400, 500 or with
\* the processing reply, or still being handled, adds nothing.
C28_CostIsSumOfSuccessfulEstimates ==
  HasCounters => totalCost = SumOfEstimates(Slots)

\* one request added its estimate, the other got the processing reply and
\* added nothing
C28_Witness ==
  /\ variant = "assistant"
  /\ \E r1, r2 \in Slots :
       /\ Answered(r1) /\ req[r1].reply.fixed = "vendor"
       /\ Answered(r2) /\ req[r2].reply = Fixed("processing")
       /\ totalCost = Estimate(r1)
       /\ totalCost > 0

\* C29: in the Gemini backends, whenever the model handle is set the knowledge
\* base is non-empty, so every prompt that is with the vendor was built from a
\* non-empty knowledge base.
C29_ReadyImpliesKnowledge ==
  variant \in GeminiVariants =>
    /\ model # "none" => knowledgeBase # <<>>
    /\ \A r \in Slots : req[r].pc = "generate" => knowledgeBase # <<>>

\* the vendor call threw pError and the catch of generateResponse replaced it
ThroughBothStages ==
  /\ variant \in GeminiVariants
  /\ pReply # "none"
  /\ pError.hasMessage
  /\ pCaught # pError

\* C30: in the Gemini backends a vendor failure that passes through the catch
\* of generateResponse and then the catch of the handler is answered 500 with
\* the config reply when its message contains "API_KEY", else the busy reply
\* when it contains "quota", else the updating reply when it contains "model".
C30_StagesCompose ==
  ThroughBothStages =>
    /\ pReply # "crash"
    /\ Contains(pError.message, PatApiKeyUnderscore) => pReply = "config"
    /\ (~Contains(pError.message, PatApiKeyUnderscore) /\ Contains(pError.message, PatQuota))
         => pReply = "busy"
    /\ (~Contains(pError.message, PatApiKeyUnderscore) /\ ~Contains(pError.message, PatQuota)
          /\ Contains(pError.message, PatModel))
         => pReply = "updating"

\* a vendor message holding "quota" and "model" but not "API_KEY" came out as
\* the busy reply of the beta backend, whose handler tests "model" last
C30_Witness ==
  /\ variant = "beta"
  /\ ThroughBothStages
  /\ ~Contains(pError.message, PatApiKeyUnderscore)
  /\ Contains(pError.message, PatQuota)
  /\ Contains(pError.message, PatModel)
  /\ pCaught = ErrQuotaExceeded
  /\ pReply = "busy"

====
